---- MODULE Spec2Model ----
(***************************************************************************)
(* The two PrimaryButton components of codymentor-ui-components:           *)
(*   - the production ("Enhanced") button, src/unnamed/part_000            *)
(*   - the basic button, src/buttons/PrimaryButton.js                      *)
(*                                                                         *)
(* JavaScript strings that the code concatenates or joins (class names,    *)
(* the aria-label) are sequences of one-character strings, so that the     *)
(* template literals and Array.prototype.join are computed character by    *)
(* character.  Strings that are only compared or passed through (type,     *)
(* colours, attribute names) are TLA+ strings.                             *)
(***************************************************************************)
EXTENDS Integers, Sequences, FiniteSets, TLC

VARIABLES
    props,         \* the props the parent passed at its latest render
    mounted,       \* whether the component has been mounted
    element,       \* the <button> element produced by the latest render
    handler,       \* the memoised click handler (useCallback's stored value)
    renders,       \* how many times the component function has run
    lastParent,    \* what the latest parent render did: "none"|"rendered"|"skipped"
    clicks,        \* how many clicks were made since the latest render
    calls,         \* how many times those clicks made the Enhanced button call onClick
    lastClick,     \* the latest of those clicks, with its effects on both buttons
    basicElement   \* the Basic button rendered side by side from the same props

vars == <<props, mounted, element, handler, renders, lastParent, clicks, calls,
         lastClick, basicElement>>

(***************************************************************************)
(* Bounds                                                                  *)
(***************************************************************************)
MaxRenders == 2
MaxClicks == 3

(***************************************************************************)
(* String literals of the source                                          *)
(***************************************************************************)
S_btn == <<"b","t","n">>
S_btnDash == <<"b","t","n","-">>
S_btnDisabled == <<"b","t","n","-","d","i","s","a","b","l","e","d">>
S_btnLoading == <<"b","t","n","-","l","o","a","d","i","n","g">>
S_btnFullWidth == <<"b","t","n","-","f","u","l","l","-","w","i","d","t","h">>
S_primary == <<"p","r","i","m","a","r","y">>
S_success == <<"s","u","c","c","e","s","s">>
S_danger == <<"d","a","n","g","e","r">>
S_small == <<"s","m","a","l","l">>
S_medium == <<"m","e","d","i","u","m">>
S_large == <<"l","a","r","g","e">>
S_LoadingColon == <<"L","o","a","d","i","n","g",":"," ">>
S_space == <<" ">>
S_objectObject == <<"[","o","b","j","e","c","t"," ","O","b","j","e","c","t","]">>

(***************************************************************************)
(* Input values                                                            *)
(***************************************************************************)
\* children: a text node, or a React element (an object, compared by reference)
TextChild(t) == [kind |-> "text", text |-> t, ref |-> 0]
ElementChild(r) == [kind |-> "element", text |-> <<>>, ref |-> r]
S_Go == <<"G","o">>
Children == {TextChild(S_Go), ElementChild(1), ElementChild(2)}

\* onClick: absent, two distinct functions, or a truthy value that is no function
OnClicks == {"undefined", "f1", "f2", "notAFunction"}
Types == {"button", "submit", "reset"}
Sizes == {S_small, S_medium, S_large}
ValidVariants == {S_primary, S_success, S_danger}
S_info == <<"i","n","f","o">>
Variants == ValidVariants \cup {S_info}
S_custom == <<"c","u","s","t","o","m">>
ClassNames == {<<>>, S_custom, <<"x"," ","y">>, S_btn, S_btnDash \o S_small, <<" ","x">>}
Events == {"e1", "e2"}

\* restProps: the passthrough attributes.  `has` is the set of attribute
\* names the caller supplied, `val` their values.
S_Save == <<"S","a","v","e">>
CallerStyle == [css |-> ("margin" :> "4px")]
RestVal ==
    ("aria-busy" :> FALSE) @@ ("aria-disabled" :> FALSE) @@
    ("aria-label" :> S_Save) @@ ("style" :> CallerStyle) @@
    ("data-testid" :> "save-button")
RestKeys == {"aria-busy", "aria-disabled", "aria-label", "style", "data-testid"}
RestChoices == {[has |-> {}, val |-> RestVal]}
                 \cup {[has |-> {k}, val |-> RestVal] : k \in RestKeys}

IsFunction(f) == f \in {"f1", "f2"}
IsTruthy(v) == v # "undefined"


(***************************************************************************)
(* JavaScript primitives used by the component                             *)
(***************************************************************************)
\* An array entry of buttonClasses: a string, or the boolean a `&&` left behind
StrEntry(s) == [kind |-> "string", str |-> s, bool |-> FALSE]
BoolEntry(b) == [kind |-> "boolean", str |-> <<>>, bool |-> b]

\* cond && str, for a boolean cond
AndStr(cond, s) == IF cond THEN StrEntry(s) ELSE BoolEntry(cond)

\* Boolean(x): the empty string and false are falsy
ToBoolean(x) == IF x.kind = "string" THEN x.str # <<>> ELSE x.bool

\* Array.prototype.filter(Boolean)
FilterBoolean(arr) == SelectSeq(arr, ToBoolean)

\* Array.prototype.join(sep) for an array of strings
RECURSIVE Join(_, _)
Join(arr, sep) ==
    IF arr = <<>> THEN <<>>
    ELSE IF Len(arr) = 1 THEN arr[1].str
    ELSE arr[1].str \o sep \o Join(Tail(arr), sep)

\* String(children) as a template literal converts it
TemplateString(c) == IF c.kind = "text" THEN c.text ELSE S_objectObject

\* {...a, ...b}: later keys win
Spread(a, b) == b @@ a

\* {...attrs, ...restProps}
SpreadRest(attrs, rest) ==
    [k \in DOMAIN attrs \cup rest.has |->
        IF k \in rest.has THEN rest.val[k] ELSE attrs[k]]

(***************************************************************************)
(* The Enhanced button, src/unnamed/part_000                               *)
(***************************************************************************)
Undefined == "undefined"
Effect(op, fn, arg) == [op |-> op, fn |-> fn, arg |-> arg]

\* handleClick without the `disabled ||` half of its guard
handleClick_loadingOnly(env, event) ==
    IF env.isLoading
    THEN <<Effect("preventDefault", Undefined, event)>>
    ELSE IF IsTruthy(env.onClick) /\ IsFunction(env.onClick)
         THEN <<Effect("call", env.onClick, event)>>
         ELSE <<>>

\* handleClick without the typeof check: a truthy non-function is called, and throws
handleClick_noTypeof(env, event) ==
    IF env.disabled \/ env.isLoading
    THEN <<Effect("preventDefault", Undefined, event)>>
    ELSE IF IsTruthy(env.onClick)
         THEN IF IsFunction(env.onClick)
              THEN <<Effect("call", env.onClick, event)>>
              ELSE <<Effect("throw", env.onClick, event)>>
         ELSE <<>>

\* handleClick calling onClick() without the event
handleClick_noEvent(env, event) ==
    IF env.disabled \/ env.isLoading
    THEN <<Effect("preventDefault", Undefined, event)>>
    ELSE IF IsTruthy(env.onClick) /\ IsFunction(env.onClick)
         THEN <<Effect("call", env.onClick, Undefined)>>
         ELSE <<>>

\* lines 46-54: the body of the click handler, run in the closure `env`
\* (the onClick, disabled and isLoading of the render that created it).
\* Its result is the sequence of side effects, in order.
handleClick(env, event) ==
    IF env.disabled \/ env.isLoading
    THEN <<Effect("preventDefault", Undefined, event)>>
    ELSE IF IsTruthy(env.onClick) /\ IsFunction(env.onClick)
         THEN <<Effect("call", env.onClick, event)>>
         ELSE <<>>

\* a dependency array that leaves isLoading out
handleClickDeps_noLoading(p) == <<p.onClick, p.disabled>>

\* line 55: the dependency array of useCallback
handleClickDeps(p) == <<p.onClick, p.disabled, p.isLoading>>

\* the closure a render creates for the handler
handleClickEnv(p) ==
    [onClick |-> p.onClick, disabled |-> p.disabled, isLoading |-> p.isLoading]

\* no memoisation: every render installs the function it created
useCallback_fresh(prev, env, deps, renderNo) ==
    [id |-> renderNo, deps |-> deps, env |-> env]

\* useCallback: the stored function is kept while the dependencies are equal,
\* otherwise the function created by this render (number `renderNo`) replaces it
useCallback(prev, env, deps, renderNo) ==
    IF prev.id # 0 /\ prev.deps = deps
    THEN prev
    ELSE [id |-> renderNo, deps |-> deps, env |-> env]

\* buttonClasses without .filter(Boolean): false joins as "false", '' as ''
S_false == <<"f","a","l","s","e">>
JoinedAsIs(x) == IF x.kind = "string" THEN x ELSE StrEntry(S_false)
buttonClasses_noFilter(p) ==
    Join([i \in 1..7 |-> JoinedAsIs(<<
        StrEntry(S_btn),
        StrEntry(S_btnDash \o p.variant),
        StrEntry(S_btnDash \o p.size),
        AndStr(p.disabled, S_btnDisabled),
        AndStr(p.isLoading, S_btnLoading),
        AndStr(p.fullWidth, S_btnFullWidth),
        StrEntry(p.className)
    >>[i])], S_space)

\* buttonClasses with the caller's className put first
buttonClasses_classNameFirst(p) ==
    Join(FilterBoolean(<<
        StrEntry(p.className),
        StrEntry(S_btn),
        StrEntry(S_btnDash \o p.variant),
        StrEntry(S_btnDash \o p.size),
        AndStr(p.disabled, S_btnDisabled),
        AndStr(p.isLoading, S_btnLoading),
        AndStr(p.fullWidth, S_btnFullWidth)
    >>), S_space)

\* lines 58-66
buttonClasses(p) ==
    Join(FilterBoolean(<<
        StrEntry(S_btn),
        StrEntry(S_btnDash \o p.variant),
        StrEntry(S_btnDash \o p.size),
        AndStr(p.disabled, S_btnDisabled),
        AndStr(p.isLoading, S_btnLoading),
        AndStr(p.fullWidth, S_btnFullWidth),
        StrEntry(p.className)
    >>), S_space)

\* accessibilityProps with aria-disabled following `disabled` alone
accessibilityProps_disabledOnly(p) ==
    LET base == ("aria-disabled" :> p.disabled) @@ ("aria-busy" :> p.isLoading)
        withTab == IF p.disabled THEN Spread(base, "tabIndex" :> -1) ELSE base
    IN  IF p.isLoading
        THEN Spread(withTab, "aria-label" :> (S_LoadingColon \o TemplateString(p.children)))
        ELSE withTab

\* accessibilityProps setting the aria-label whether loading or not
accessibilityProps_alwaysLabel(p) ==
    LET base == ("aria-disabled" :> (p.disabled \/ p.isLoading))
                @@ ("aria-busy" :> p.isLoading)
        withTab == IF p.disabled THEN Spread(base, "tabIndex" :> -1) ELSE base
    IN  Spread(withTab, "aria-label" :> (S_LoadingColon \o TemplateString(p.children)))

\* lines 69-74
accessibilityProps(p) ==
    LET base == ("aria-disabled" :> (p.disabled \/ p.isLoading))
                @@ ("aria-busy" :> p.isLoading)
        withTab == IF p.disabled THEN Spread(base, "tabIndex" :> -1) ELSE base
    IN  IF p.isLoading
        THEN Spread(withTab, "aria-label" :> (S_LoadingColon \o TemplateString(p.children)))
        ELSE withTab

\* buttonStyle with a third, red pair for the danger variant
buttonStyle_threeWay(p) ==
    [css |-> ("--primary-color" :> (IF p.variant = S_primary THEN "#2563eb"
                                    ELSE IF p.variant = S_danger THEN "#dc2626"
                                    ELSE "#10b981"))
             @@ ("--hover-color" :> (IF p.variant = S_primary THEN "#1d4ed8"
                                     ELSE IF p.variant = S_danger THEN "#b91c1c"
                                     ELSE "#0da271"))]

\* lines 82-86
buttonStyle(p) ==
    [css |-> ("--primary-color" :> (IF p.variant = S_primary THEN "#2563eb" ELSE "#10b981"))
             @@ ("--hover-color" :> (IF p.variant = S_primary THEN "#1d4ed8" ELSE "#0da271"))]

\* lines 90-97
SpinnerContent ==
    <<[tag |-> "span", className |-> "btn-spinner", ariaHidden |-> "true", text |-> ""],
      [tag |-> "span", className |-> "sr-only", ariaHidden |-> "", text |-> "Loading..."]>>
buttonContent(p) ==
    IF p.isLoading THEN [kind |-> "loading", nodes |-> SpinnerContent, children |-> p.children]
    ELSE [kind |-> "children", nodes |-> <<>>, children |-> p.children]

\* lines 76-99: the attributes of the <button>, in JSX order: the explicit
\* attributes, then {...accessibilityProps}, then {...restProps}
buttonAttrs(p, h) ==
    SpreadRest(
        Spread(
            ("type" :> p.type) @@ ("className" :> buttonClasses(p))
              @@ ("onClick" :> h.id) @@ ("disabled" :> p.disabled)
              @@ ("style" :> buttonStyle(p)),
            accessibilityProps(p)),
        p.restProps)

\* lines 33-100: one run of the component function
PrimaryButton(p, prevHandler, renderNo) ==
    LET h == useCallback(prevHandler, handleClickEnv(p), handleClickDeps(p), renderNo)
    IN  [handler |-> h,
         element |-> [attrs |-> buttonAttrs(p, h), content |-> buttonContent(p)]]

\* React.memo's default comparison: the two props objects have the same keys
\* and Object.is holds of every value (objects compare by reference)
shallowEqual(a, b) ==
    /\ a.children = b.children
    /\ a.onClick = b.onClick
    /\ a.type = b.type
    /\ a.disabled = b.disabled
    /\ a.isLoading = b.isLoading
    /\ a.fullWidth = b.fullWidth
    /\ a.size = b.size
    /\ a.variant = b.variant
    /\ a.className = b.className
    /\ a.restProps.has = b.restProps.has
    /\ \A k \in a.restProps.has : a.restProps.val[k] = b.restProps.val[k]

\* line 33: memo(...) skips the render when the props are shallow-equal
memoSkips(prevProps, nextProps) == shallowEqual(prevProps, nextProps)

(***************************************************************************)
(* The Basic button, src/buttons/PrimaryButton.js                          *)
(***************************************************************************)
\* lines 4-21
BasicPrimaryButton(p) ==
    [attrs |-> ("onClick" :> p.onClick) @@ ("disabled" :> p.disabled)
               @@ ("style" :> [css |->
                     ("padding" :> "10px 20px")
                     @@ ("backgroundColor" :> (IF p.disabled THEN "#ccc" ELSE "#007bff"))
                     @@ ("color" :> "white") @@ ("border" :> "none")
                     @@ ("borderRadius" :> "4px")
                     @@ ("cursor" :> (IF p.disabled THEN "not-allowed" ELSE "pointer"))]),
     content |-> [kind |-> "children", nodes |-> <<>>, children |-> p.children]]

\* the listener of the Basic button is the caller's onClick itself
basicListener(fn, event) ==
    IF IsFunction(fn) THEN <<Effect("call", fn, event)>> ELSE <<>>

\* calling the Basic button's onClick attribute as a function
basicInvoke(fn, event) ==
    IF IsFunction(fn) THEN <<Effect("call", fn, event)>>
    ELSE <<Effect("throw", fn, event)>>

(***************************************************************************)
(* State machine                                                           *)
(***************************************************************************)
NoHandler == [id |-> 0, deps |-> <<>>, env |-> handleClickEnv(
                 [onClick |-> Undefined, disabled |-> FALSE, isLoading |-> FALSE])]
NoClick == [via |-> "none", event |-> Undefined, ran |-> FALSE,
            effects |-> <<>>, basic |-> <<>>]
NoElement == [attrs |-> ("unmounted" :> TRUE),
              content |-> [kind |-> "none", nodes |-> <<>>, children |-> TextChild(<<>>)]]

\* lines 36-42 and 116-124: the defaults, for a caller passing children and onClick
DefaultProps(children, onClick) ==
    [children |-> children, onClick |-> onClick, type |-> "button",
     disabled |-> FALSE, isLoading |-> FALSE, fullWidth |-> FALSE,
     size |-> S_medium, variant |-> S_primary, className |-> <<>>,
     restProps |-> [has |-> {}, val |-> RestVal]]

PropsSet ==
    [children : Children, onClick : OnClicks, type : Types,
     disabled : BOOLEAN, isLoading : BOOLEAN, fullWidth : BOOLEAN,
     size : Sizes, variant : Variants, className : ClassNames,
     restProps : RestChoices]

\* the props a parent may pass next: the current ones again, or one prop changed
NextProps(p) ==
    {p}
    \cup {[p EXCEPT !.children = v] : v \in Children}
    \cup {[p EXCEPT !.onClick = v] : v \in OnClicks}
    \cup {[p EXCEPT !.type = v] : v \in Types}
    \cup {[p EXCEPT !.disabled = v] : v \in BOOLEAN}
    \cup {[p EXCEPT !.isLoading = v] : v \in BOOLEAN}
    \cup {[p EXCEPT !.fullWidth = v] : v \in BOOLEAN}
    \cup {[p EXCEPT !.size = v] : v \in Sizes}
    \cup {[p EXCEPT !.variant = v] : v \in Variants}
    \cup {[p EXCEPT !.className = v] : v \in ClassNames}
    \cup {[p EXCEPT !.restProps = v] : v \in RestChoices}

\* the props of the first render: the defaults, with any onClick, disabled, isLoading
Init ==
    /\ \E f \in OnClicks, d \in BOOLEAN, l \in BOOLEAN :
        props = [DefaultProps(TextChild(S_Go), f) EXCEPT !.disabled = d, !.isLoading = l]
    /\ mounted = FALSE
    /\ element = NoElement
    /\ handler = NoHandler
    /\ renders = 0
    /\ lastParent = "none"
    /\ clicks = 0
    /\ calls = 0
    /\ lastClick = NoClick
    /\ basicElement = NoElement

\* the component function runs and its output is committed
Render(p) ==
    LET out == PrimaryButton(p, handler, renders + 1)
    IN  /\ element' = out.element
        /\ handler' = out.handler
        /\ renders' = renders + 1
        /\ basicElement' = BasicPrimaryButton(p)
        /\ lastParent' = "rendered"
        /\ clicks' = 0
        /\ calls' = 0
        /\ lastClick' = NoClick

\* the first render
Mount ==
    /\ ~mounted
    /\ mounted' = TRUE
    /\ Render(props)
    /\ UNCHANGED props

\* the parent renders again and passes `p`
ParentRender ==
    /\ mounted
    /\ \E p \in NextProps(props) :
        /\ props' = p
        /\ IF memoSkips(props, p)
           THEN /\ lastParent' = "skipped"
                /\ UNCHANGED <<element, handler, renders, clicks, calls, lastClick, basicElement>>
           ELSE /\ renders < MaxRenders
                /\ Render(p)
    /\ UNCHANGED mounted

\* the listener React runs for a click dispatched to the element
Listener(el, h, event) ==
    IF el.attrs["onClick"] = h.id THEN handleClick(h.env, event) ELSE <<>>

\* the number of onClick invocations among the effects of a click
RECURSIVE CountCalls(_)
CountCalls(effects) ==
    IF effects = <<>> THEN 0
    ELSE (IF Head(effects).op = "call" THEN 1 ELSE 0) + CountCalls(Tail(effects))

\* a click is recorded with what it did to the Enhanced and to the Basic button
Recorded(via, event, ran, effects, basic) ==
    /\ lastClick' = [via |-> via, event |-> event, ran |-> ran,
                     effects |-> effects, basic |-> basic]
    /\ clicks' = clicks + 1
    /\ calls' = calls + CountCalls(effects)

\* lines 80-81: the user clicks the button.  A <button> carrying the native
\* disabled attribute gets no click event; otherwise the onClick listener runs.
DomClick ==
    /\ mounted
    /\ clicks < MaxClicks
    /\ \E e \in Events :
        Recorded("dom", e,
            ~element.attrs["disabled"],
            IF element.attrs["disabled"] THEN <<>> ELSE Listener(element, handler, e),
            IF basicElement.attrs["disabled"] THEN <<>>
            ELSE basicListener(basicElement.attrs["onClick"], e))
    /\ UNCHANGED <<props, mounted, element, handler, renders, lastParent, basicElement>>

\* the function held by the element's onClick attribute is called directly
\* (a wrapper or a test holding the element), bypassing event dispatch
CallHandler ==
    /\ mounted
    /\ clicks < MaxClicks
    /\ \E e \in Events :
        Recorded("direct", e, TRUE,
            Listener(element, handler, e),
            basicInvoke(basicElement.attrs["onClick"], e))
    /\ UNCHANGED <<props, mounted, element, handler, renders, lastParent, basicElement>>

Next == Mount \/ ParentRender \/ DomClick \/ CallHandler

Spec == Init /\ [][Next]_vars

\* The render as a pure function of the props: every combination of the props
\* the rendered attributes and content are computed from (onClick and type are
\* only passed on, so one absent and one present onClick and one type stand
\* for them), each mounted once
InitPure ==
    /\ props \in PropsSet
    /\ props.onClick \in {Undefined, "f1"}
    /\ props.type = "button"
    /\ mounted = FALSE
    /\ element = NoElement
    /\ handler = NoHandler
    /\ renders = 0
    /\ lastParent = "none"
    /\ clicks = 0
    /\ calls = 0
    /\ lastClick = NoClick
    /\ basicElement = NoElement

NextPure == Mount

SpecPure == InitPure /\ [][NextPure]_vars

(***************************************************************************)
(* Vocabulary of the properties                                            *)
(***************************************************************************)
Gated(p) == p.disabled \/ p.isLoading

\* what a click that reaches the handler must do under props p
ExpectedEffects(p, event) ==
    IF Gated(p) THEN <<Effect("preventDefault", Undefined, event)>>
    ELSE IF p.onClick \in {"f1", "f2"} THEN <<Effect("call", p.onClick, event)>>
    ELSE <<>>

\* the onClick invocations among the effects of a click, in order
OnClickCalls(effects) == SelectSeq(effects, LAMBDA x : x.op = "call")

\* s.split(' ')
RECURSIVE SplitAcc(_, _, _)
SplitAcc(s, cur, acc) ==
    IF s = <<>> THEN Append(acc, cur)
    ELSE IF Head(s) = " " THEN SplitAcc(Tail(s), <<>>, Append(acc, cur))
    ELSE SplitAcc(Tail(s), Append(cur, Head(s)), acc)
Tokens(s) == SplitAcc(s, <<>>, <<>>)

RECURSIVE JoinTokens(_)
JoinTokens(ts) ==
    IF ts = <<>> THEN <<>>
    ELSE IF Len(ts) = 1 THEN ts[1]
    ELSE ts[1] \o <<" ">> \o JoinTokens(Tail(ts))

Opt(cond, token) == IF cond THEN <<token>> ELSE <<>>

\* the generated class tokens, in order
GeneratedTokens(p) ==
    <<S_btn, S_btnDash \o p.variant, S_btnDash \o p.size>>
    \o Opt(p.disabled, S_btnDisabled)
    \o Opt(p.isLoading, S_btnLoading)
    \o Opt(p.fullWidth, S_btnFullWidth)

ExpectedClass(p) ==
    JoinTokens(GeneratedTokens(p) \o Opt(p.className # <<>>, p.className))

VariantClasses == {S_btnDash \o v : v \in ValidVariants}
SizeClasses == {S_btnDash \o z : z \in Sizes}
Occurrences(ts, S) == Cardinality({i \in 1..Len(ts) : ts[i] \in S})
Range(ts) == {ts[i] : i \in 1..Len(ts)}

\* exactly one variant class, exactly one size class, no duplicate, no empty token
WellFormedClass(c) ==
    LET ts == Tokens(c)
    IN  /\ Occurrences(ts, VariantClasses) = 1
        /\ Occurrences(ts, SizeClasses) = 1
        /\ \A i, j \in 1..Len(ts) : ts[i] = ts[j] => i = j
        /\ \A i \in 1..Len(ts) : ts[i] # <<>>

\* a className that is empty, or single-space separated distinct tokens none of
\* which is a generated token or a variant or size class
CleanClassName(p) ==
    \/ p.className = <<>>
    \/ LET ts == Tokens(p.className)
       IN  /\ \A i \in 1..Len(ts) : ts[i] # <<>>
           /\ \A i, j \in 1..Len(ts) : ts[i] = ts[j] => i = j
           /\ Range(ts) \cap (Range(GeneratedTokens(p)) \cup VariantClasses \cup SizeClasses) = {}

ValidProps(p) == p.variant \in ValidVariants /\ p.size \in Sizes

Attr(name) == element.attrs[name]
HasAttr(name) == name \in DOMAIN element.attrs
Passes(p, name) == name \in p.restProps.has

BluePair == <<"#2563eb", "#1d4ed8">>
GreenPair == <<"#10b981", "#0da271">>
\* the (--primary-color, --hover-color) pair of the rendered style, if it has one
HasColourPair == {"--primary-color", "--hover-color"} \subseteq DOMAIN Attr("style").css
ColourPair == <<Attr("style").css["--primary-color"], Attr("style").css["--hover-color"]>>

EnhancedOnlyDefaults(p) ==
    /\ p.type = "button"
    /\ ~p.isLoading
    /\ ~p.fullWidth
    /\ p.size = S_medium
    /\ p.variant = S_primary
    /\ p.className = <<>>
    /\ p.restProps.has = {}

(***************************************************************************)
(* Click handling (checked under Spec)                                     *)
(***************************************************************************)
\* C1: while the latest rendered props have disabled or isLoading set, no click
\* invokes onClick (0 invocations over all the clicks made), and every click
\* that reaches the handler has exactly one effect: event.preventDefault().
C1_ClickGating ==
    (mounted /\ Gated(props)) =>
        /\ calls = 0
        /\ lastClick.ran =>
              /\ lastClick.effects =
                     <<Effect("preventDefault", Undefined, lastClick.event)>>
              /\ OnClickCalls(lastClick.effects) = <<>>

\* three clicks on a disabled button carrying a passthrough attribute, the
\* latest one having reached the handler
C1_Witness ==
    /\ mounted /\ props.disabled /\ props.onClick = "f1"
    /\ props.restProps.has # {}
    /\ clicks = 3 /\ lastClick.ran /\ calls = 0

\* C2: with disabled = false and isLoading = false every click reaches the
\* handler and invokes a callable onClick exactly once, with the click's event,
\* and nothing else; an absent or non-callable onClick gives no effect at all
\* (no call, no preventDefault, no error).
C2_EnabledClick ==
    (mounted /\ ~Gated(props) /\ lastClick.via # "none") =>
        /\ lastClick.ran
        /\ IF props.onClick \in {"f1", "f2"}
           THEN /\ lastClick.effects = <<Effect("call", props.onClick, lastClick.event)>>
                /\ calls = clicks
           ELSE /\ lastClick.effects = <<>>
                /\ calls = 0

C2_Witness ==
    /\ mounted /\ ~Gated(props) /\ props.onClick = "f2"
    /\ clicks = 2 /\ calls = 2
    /\ lastClick.effects = <<Effect("call", "f2", "e2")>>

\* C3: the memoised handler always closes over the onClick, disabled and
\* isLoading of the latest render, and every click that reaches it has the
\* outcome those props determine.
C3_GuardFreshness ==
    mounted =>
        /\ handler.env.onClick = props.onClick
        /\ handler.env.disabled = props.disabled
        /\ handler.env.isLoading = props.isLoading
        /\ lastClick.ran => lastClick.effects = ExpectedEffects(props, lastClick.event)

\* a click suppressed by a re-render that turned isLoading on, the handler
\* having been replaced by that re-render
C3_Witness ==
    /\ mounted /\ renders = 2 /\ handler.id = 2
    /\ props.isLoading /\ ~props.disabled /\ props.onClick = "f1"
    /\ lastClick.ran
    /\ lastClick.effects = <<Effect("preventDefault", Undefined, lastClick.event)>>

\* C9: from one render to the next the handler attached to the element keeps
\* its identity whenever onClick, disabled and isLoading are unchanged, and a
\* parent render with shallow-equal props runs no render of the component.
C9_HandlerStability ==
    [][ /\ (/\ mounted
            /\ props'.onClick = props.onClick
            /\ props'.disabled = props.disabled
            /\ props'.isLoading = props.isLoading)
           => (handler'.id = handler.id /\ element'.attrs["onClick"] = element.attrs["onClick"])
        /\ (mounted /\ shallowEqual(props, props'))
           => (renders' = renders /\ element' = element)
      ]_vars

\* the handler of the first render survived a re-render, and a later parent
\* render with the same props was skipped
C9_Witness ==
    /\ mounted /\ renders = 2 /\ handler.id = 1 /\ Attr("onClick") = 1
    /\ lastParent = "skipped"

\* C10: with the Enhanced-only props at their defaults, both buttons carry the
\* native disabled attribute = disabled and show the same children, and every
\* click dispatched to them
\* invokes onClick identically (same function, same event); with disabled set
\* neither invokes anything.
C10_BasicEquivalence ==
    (mounted /\ EnhancedOnlyDefaults(props)) =>
        /\ Attr("disabled") = props.disabled
        /\ basicElement.attrs["disabled"] = props.disabled
        /\ element.content = basicElement.content
        /\ lastClick.via = "dom" =>
              /\ OnClickCalls(lastClick.effects) = OnClickCalls(lastClick.basic)
              /\ props.disabled =>
                    (lastClick.effects = <<>> /\ lastClick.basic = <<>>)

C10_Witness ==
    /\ mounted /\ EnhancedOnlyDefaults(props) /\ ~props.disabled
    /\ lastClick.via = "dom"
    /\ lastClick.basic = <<Effect("call", "f1", "e1")>>
    /\ lastClick.effects = lastClick.basic

(***************************************************************************)
(* Rendering (checked under SpecPure)                                      *)
(***************************************************************************)
\* C4: the class string is the single-space join of btn, btn-<variant>,
\* btn-<size>, btn-disabled iff disabled, btn-loading iff isLoading,
\* btn-full-width iff fullWidth, and the caller's className last iff non-empty;
\* the default props give exactly "btn btn-primary btn-medium".
C4_ClassDerivation ==
    mounted =>
        /\ Attr("className") = ExpectedClass(props)
        /\ (/\ ~props.disabled /\ ~props.isLoading /\ ~props.fullWidth
            /\ props.variant = S_primary /\ props.size = S_medium
            /\ props.className = <<>>)
           => Attr("className") =
                 <<"b","t","n"," ","b","t","n","-","p","r","i","m","a","r","y"," ",
                   "b","t","n","-","m","e","d","i","u","m">>

C4_Witness ==
    /\ mounted /\ props.disabled /\ props.isLoading /\ props.fullWidth
    /\ props.variant = S_danger /\ props.size = S_large /\ props.className = S_custom
    /\ Attr("className") =
          S_btn \o S_space \o S_btnDash \o S_danger \o S_space \o S_btnDash \o S_large
          \o S_space \o S_btnDisabled \o S_space \o S_btnLoading \o S_space
          \o S_btnFullWidth \o S_space \o S_custom

\* C5 as claimed: for valid variant and size and every value of the other
\* props, the class string has exactly one variant class, exactly one size
\* class, no duplicate token and no empty token.
C5_TokenUniquenessAnyProps ==
    (mounted /\ ValidProps(props)) => WellFormedClass(Attr("className"))

\* C5 amended: the same, for a className that is empty or a single-space
\* separated list of distinct tokens, none a generated, variant or size class.
C5_TokenUniqueness ==
    (mounted /\ ValidProps(props) /\ CleanClassName(props))
        => WellFormedClass(Attr("className"))

C5_Witness ==
    /\ mounted /\ ValidProps(props) /\ props.className = <<"x"," ","y">>
    /\ props.disabled /\ props.fullWidth /\ ~props.isLoading
    /\ Len(Tokens(Attr("className"))) = 7
    /\ WellFormedClass(Attr("className"))

\* C6 as claimed: for every prop combination, passthrough attributes included,
\* aria-busy = isLoading and aria-disabled = (disabled or isLoading).
C6_AriaStateAnyProps ==
    mounted =>
        /\ Attr("aria-busy") = props.isLoading
        /\ Attr("aria-disabled") = (props.disabled \/ props.isLoading)

\* C6 amended: aria-busy = isLoading unless the caller passes aria-busy, and
\* aria-disabled = (disabled or isLoading) unless the caller passes
\* aria-disabled; a passed attribute replaces the generated one.
C6_AriaState ==
    mounted =>
        /\ Attr("aria-busy") =
              IF Passes(props, "aria-busy") THEN props.restProps.val["aria-busy"]
              ELSE props.isLoading
        /\ Attr("aria-disabled") =
              IF Passes(props, "aria-disabled") THEN props.restProps.val["aria-disabled"]
              ELSE (props.disabled \/ props.isLoading)

C6_Witness ==
    /\ mounted /\ props.isLoading /\ ~props.disabled
    /\ props.restProps.has = {"data-testid"}
    /\ Attr("aria-busy") = TRUE /\ Attr("aria-disabled") = TRUE

\* C7 as claimed: whenever isLoading, the element's aria-label is "Loading: "
\* followed by children; whenever not, no aria-label is generated and children
\* are rendered unchanged.
C7_LoadingLabelAnyProps ==
    mounted =>
        IF props.isLoading
        THEN /\ HasAttr("aria-label")
             /\ Attr("aria-label") = S_LoadingColon \o TemplateString(props.children)
             /\ element.content.kind = "loading"
        ELSE /\ HasAttr("aria-label") => Passes(props, "aria-label")
             /\ element.content.kind = "children"
             /\ element.content.children = props.children

\* C7 amended: the same, unless the caller passes an aria-label, which then is
\* the element's aria-label whether loading or not.
C7_LoadingLabel ==
    mounted =>
        /\ IF Passes(props, "aria-label")
           THEN HasAttr("aria-label") /\ Attr("aria-label") = props.restProps.val["aria-label"]
           ELSE IF props.isLoading
                THEN /\ HasAttr("aria-label")
                     /\ Attr("aria-label") = S_LoadingColon \o TemplateString(props.children)
                ELSE ~HasAttr("aria-label")
        /\ IF props.isLoading
           THEN element.content.kind = "loading" /\ element.content.nodes = SpinnerContent
           ELSE element.content.kind = "children" /\ element.content.children = props.children

C7_Witness ==
    /\ mounted /\ props.isLoading /\ props.children = TextChild(S_Go)
    /\ ~Passes(props, "aria-label")
    /\ Attr("aria-label") = <<"L","o","a","d","i","n","g",":"," ","G","o">>
    /\ element.content.kind = "loading"

\* C8 as claimed: the rendered (--primary-color, --hover-color) pair is the blue
\* pair for variant = primary and the green pair for every other variant,
\* whatever the other props.
C8_StyleVariablesAnyProps ==
    mounted =>
        /\ HasColourPair
        /\ ColourPair = IF props.variant = S_primary THEN BluePair ELSE GreenPair

\* C8 amended: the same, unless the caller passes a style attribute, which then
\* replaces the generated style object as a whole.
C8_StyleVariables ==
    mounted =>
        IF Passes(props, "style")
        THEN Attr("style") = props.restProps.val["style"]
        ELSE /\ HasColourPair
             /\ ColourPair = IF props.variant = S_primary THEN BluePair ELSE GreenPair

C8_Witness ==
    /\ mounted /\ props.variant = S_danger /\ ~Passes(props, "style")
    /\ props.disabled /\ props.isLoading
    /\ ColourPair = <<"#10b981", "#0da271">>
====
